---------------------------- MODULE Spec2Model ----------------------------
(***************************************************************************)
(* Model of OneCConfigurator.export_dt and _read_error_log                 *)
(* (src/backup1c/modules/onec.py): one export run that spawns the 1C       *)
(* configurator, polls it every 2 seconds, enforces the timeout and        *)
(* evaluates exit code, archive file and configurator log.                 *)
(*                                                                         *)
(* Texts are sequences of one-character strings; messages built by         *)
(* f-strings are sequences of string pieces (the Russian literals of the   *)
(* source are rendered in ASCII).  Optional[x] is the empty set (None) or  *)
(* the singleton {x}.  The clock counts seconds; only time.sleep advances  *)
(* it.                                                                     *)
(***************************************************************************)
EXTENDS Integers, Sequences, FiniteSets, TLC

\* ------------------------------------------------------------------ bounds
MaxTimeout == 4   \* timeouts range over 0..MaxTimeout seconds
MaxSize == 2      \* the archive grows to at most MaxSize bytes
MaxTextLen == 3   \* the short log texts have at most MaxTextLen characters
MaxLinesArg == 2  \* max_lines ranges over 0..MaxLinesArg and the default

\* ------------------------------------------------------- program constants
PollInterval == 2      \* time.sleep(2)
MaxDiagLen == 1000     \* len(error_text) > 1000
DefaultMaxLines == 20  \* max_lines: int = 20
CmdPrefixLen == 6      \* args[:6]

\* ----------------------------------------------------------------- values
None == {}
Some(v) == {v}
TheValue(opt) == CHOOSE v \in opt : TRUE

\* Python truthiness of an Optional[str]: None and "" are falsy
Truthy(opt) == opt # None /\ opt # Some("")

Min(S) == CHOOSE m \in S : \A n \in S : m <= n
Max(S) == CHOOSE m \in S : \A n \in S : m >= n
Range(s) == {s[i] : i \in DOMAIN s}
Rep(c, n) == [i \in 1..n |-> c]

\* ------------------------------------------------------------------ paths
\* A path is its stem and its suffix (without the dot).
Path(stem, ext) == [stem |-> stem, ext |-> ext]

\* Path.with_suffix: replaces the suffix, whatever it was
with_suffix(p, ext) == [p EXCEPT !.ext = ext]

PathStr(p) == IF p.ext = "" THEN p.stem ELSE p.stem \o "." \o p.ext

\* ------------------------------------------------------------------ files
Absent == <<"<absent>">>
Exists(f) == f # Absent
StSize(f) == Len(f)
Bytes(n) == Rep("x", n)

\* ------------------------------------------------- _read_error_log pieces
Whitespace == {" ", "\n", "\t"}

\* the utf-8-sig decoder drops a byte-order mark at the start of the file
Decode(content) ==
    IF Len(content) > 0 /\ content[1] = "BOM" THEN Tail(content) ELSE content

\* f.readlines(): the lines of the text, each keeping its line terminator
RECURSIVE readlines(_)
readlines(text) ==
    IF Len(text) = 0 THEN <<>>
    ELSE LET nl == {i \in 1..Len(text) : text[i] = "\n"}
             cut == IF nl = {} THEN Len(text) ELSE Min(nl)
         IN  <<SubSeq(text, 1, cut)>> \o readlines(SubSeq(text, cut + 1, Len(text)))

\* lines[-max_lines:] if len(lines) > max_lines else lines
\* (a Python slice [-0:] is the whole list)
LastLines(lines, max_lines) ==
    IF Len(lines) > max_lines
    THEN IF max_lines = 0 THEN lines
         ELSE SubSeq(lines, Len(lines) - max_lines + 1, Len(lines))
    ELSE lines

\* ''.join(lines)
RECURSIVE Join(_)
Join(lines) == IF Len(lines) = 0 THEN <<>> ELSE Head(lines) \o Join(Tail(lines))

\* str.strip()
Strip(text) ==
    LET keep == {i \in 1..Len(text) : text[i] \notin Whitespace}
    IN  IF keep = {} THEN <<>> ELSE SubSeq(text, Min(keep), Max(keep))

\* if len(error_text) > 1000: error_text = error_text[:1000] + "..."
Truncate(text) ==
    IF Len(text) > MaxDiagLen
    THEN SubSeq(text, 1, MaxDiagLen) \o <<".", ".", ".">>
    ELSE text

LogNotFoundMsg == <<"Configurator log file not found">>
NoDescriptionMsg == <<"Error without description in the log">>
ReadFailedMsg(e) == <<"Could not read the log: ">> \o e

\* variant: the empty text is returned as it is
OrNoDescription_raw(error_text) == error_text

\* return error_text if error_text else "..."
OrNoDescription(error_text) ==
    IF error_text # <<>> THEN error_text ELSE NoDescriptionMsg

\* _read_error_log(log_file, max_lines); ioError is the exception open() or
\* readlines() raised, None when the read went through
read_error_log(file, max_lines, ioError) ==
    IF ~Exists(file) THEN LogNotFoundMsg
    ELSE IF ioError # None THEN ReadFailedMsg(TheValue(ioError))
    ELSE OrNoDescription(
            Truncate(Strip(Join(LastLines(readlines(Decode(file)), max_lines)))))


\* ------------------------------------------------------- the job (inputs)
ExePath == "1cestart.exe"
BasePath == "C:/bases/acc"
OutputFiles == {Path("backup", "dt"), Path("backup", "log")}
Logins == {None, Some("admin")}
PasswordValues == {"", "s3cret", "hunter2"}
Passwords == {None} \cup {Some(p) : p \in PasswordValues}
JobPasswords == {None, Some("s3cret")}
Timeouts == 0..MaxTimeout

WithPassword(j, pw) == [j EXCEPT !.password = pw]

\* variant: the suffix is not replaced
LogFile_same(j) == j.output_file

\* log_file = output_file.with_suffix('.log')
LogFile(j) == with_suffix(j.output_file, "log")

\* the argument list handed to Popen; every argument is a sequence of pieces
BuildArgs(j) ==
    << <<ExePath>>,
       <<"DESIGNER">>,
       <<"/F\"", j.base_path, "\"">>,
       <<"/DisableStartupMessages">>,
       <<"/DumpIB\"", PathStr(j.output_file), "\"">>,
       <<"/Out\"", PathStr(LogFile(j)), "\"">> >>
    \o (IF Truthy(j.login) THEN << <<"/N\"", TheValue(j.login), "\"">> >> ELSE <<>>)
    \o (IF Truthy(j.password) THEN << <<"/P\"", TheValue(j.password), "\"">> >> ELSE <<>>)

\* ' '.join(args)
RECURSIVE JoinSpace(_)
JoinSpace(args) ==
    IF Len(args) = 0 THEN <<>>
    ELSE IF Len(args) = 1 THEN Head(args)
    ELSE Head(args) \o <<" ">> \o JoinSpace(Tail(args))

\* variant: the whole argument list is logged
CommandForLog_all(args) == args

\* args[:6], the part of the command line that is logged
CommandForLog(args) == SubSeq(args, 1, Min({CmdPrefixLen, Len(args)}))

\* ------------------------------------------------------ messages emitted
StartMsg(j) == <<"Starting 1C configurator for export: ", j.base_path>>
CommandMsg(j) == <<"Command (without password): ">> \o JoinSpace(CommandForLog(BuildArgs(j)))
TimeoutMsg(timeout) == <<"Export timeout exceeded (", ToString(timeout), " sec)">>
ExitCodeMsg(rc) == <<"Configurator exited with code ", ToString(rc)>>
NoOutputMsg == <<"Output .dt file not created or empty">>
SuccessMsg(j) == <<"Export finished successfully: ", PathStr(j.output_file)>>
FatalMsg(e) == <<"Error during export: ">> \o e

Entry(level, msg) == [level |-> level, msg |-> msg]

\* str(e) of the exceptions the environment can produce
SpawnErrors == { <<"[WinError 2] The system cannot find the file specified">>,
                 <<"[Errno 13] Permission denied: ", ExePath>> }
FileNotFoundErr(p) == <<"[Errno 2] No such file or directory: ", PathStr(p)>>
IOErr(p) == <<"[Errno 5] Input/output error: ", PathStr(p)>>
MkdirErr == <<"[Errno 13] Permission denied: parent">>

\* ---------------------------------------------------------------- outcome
Outcome(ok, diag) == [succeeded |-> ok, diagnostic |-> diag]

\* ------------------------------------------------ what the child can write
StaleLog == <<"o", "l", "d", "\n">>
LogContents ==
    { <<>>,
      <<" ", "\n", "\t">>,
      <<"BOM", "e", "r", "r", "\n">>,
      Rep("\n", 1) \o Join(Rep(<<"l", "\n">>, DefaultMaxLines + 1)) }
ExitCodes == {0, 1}
KilledCode == -9

\* ------------------------------------------------------------------ state
VARIABLES
    job,           \* the arguments of export_dt
    pc,            \* where export_dt stands
    now,           \* time.time()
    start_time, last_size, stable_count,   \* the locals of the polling loop
    proc,          \* the child: "none", "running" or "exited"
    exit_code,     \* the code the child exited with (OS side)
    returncode,    \* process.returncode: None until poll() sees the exit
    killed,        \* process.kill() was called
    fs,            \* the files: path -> content or Absent
    log_locked,    \* the configurator log cannot be unlinked (held open elsewhere)
    log,           \* what logger received, in order
    result,        \* the returned tuple, None until export_dt returns
    raised,        \* the exception export_dt raised, None if none
    fs_alone,      \* the files as they would be without the other invocation
    other_job,     \* the arguments of a concurrent invocation of export_dt
    other_pc,      \* where the concurrent invocation stands ("none": there is none)
    ex_file, ex_max_lines,   \* the arguments of a direct call of _read_error_log
    ex_result      \* what that call returned, None before it returns

vars == <<job, pc, now, start_time, last_size, stable_count, proc, exit_code,
          returncode, killed, fs, log_locked, log, result, raised,
          fs_alone, other_job, other_pc, ex_file, ex_max_lines, ex_result>>

Files == OutputFiles \cup {with_suffix(p, "log") : p \in OutputFiles}

RunInit ==
    /\ job \in [base_path : {BasePath}, output_file : OutputFiles,
                login : Logins, password : JobPasswords, timeout : Timeouts]
    /\ pc = "prepare"
    /\ now = 0
    /\ start_time = 0 /\ last_size = 0 /\ stable_count = 0
    /\ proc = "none" /\ exit_code = 0 /\ returncode = None /\ killed = FALSE
    /\ \E stale \in BOOLEAN :
          fs = [p \in Files |->
                  IF stale /\ p = with_suffix(job.output_file, "log")
                  THEN StaleLog ELSE Absent]
    /\ log_locked = FALSE
    /\ log = <<>>
    /\ result = None
    /\ raised = None

\* no concurrent invocation
NoOther == other_job = None /\ other_pc = "none"

\* no direct call of _read_error_log
NoExtract == ex_file = Absent /\ ex_max_lines = DefaultMaxLines /\ ex_result = None

Init == RunInit /\ fs_alone = fs /\ NoOther /\ NoExtract

\* a step of this invocation, of its child or of an outsider: it changes the
\* files as it would without a concurrent invocation, which stands still
OwnStep ==
    /\ fs_alone' = [p \in DOMAIN fs |-> IF fs'[p] = fs[p] THEN fs_alone[p] ELSE fs'[p]]
    /\ UNCHANGED <<other_job, other_pc, ex_file, ex_max_lines, ex_result>>

Terminal == pc \in {"done", "raised"}

\* return ok, diag
Return(ok, diag) ==
    /\ result' = Some(Outcome(ok, diag))
    /\ pc' = "done"
    /\ UNCHANGED raised

\* except Exception as e: logger.error(...); raise OneCError(error_msg)
Fatal(e) ==
    /\ log' = Append(log, Entry("ERROR", FatalMsg(e)))
    /\ raised' = Some([type |-> "OneCError", msg |-> FatalMsg(e)])
    /\ pc' = "raised"
    /\ UNCHANGED result

\* process.kill(): ends a running child, does nothing to one that has exited
Kill ==
    /\ killed' = TRUE
    /\ proc' = "exited"
    /\ exit_code' = IF proc = "running" THEN KilledCode ELSE exit_code

\* variant: the exit check placed before the timeout check
LoopOrder_exit_first == <<"check_exit", "check_timeout", "monitor_exists">>

\* the order of the checks in the body of the while loop (lines 107-128)
LoopOrder == <<"check_timeout", "check_exit", "monitor_exists">>

LoopTop == LoopOrder[1]

\* variant: the loop is left for the verification once the size was seen
\* stable, without waiting for the child to exit
After_break(step) ==
    IF step = "monitor_exists" /\ stable_count >= 1 THEN "verify_exists"
    ELSE LET i == CHOOSE k \in DOMAIN LoopOrder : LoopOrder[k] = step
         IN  IF i < Len(LoopOrder) THEN LoopOrder[i + 1] ELSE "sleep"

\* the step of the loop body that follows a check which did not leave it
After(step) ==
    LET i == CHOOSE k \in DOMAIN LoopOrder : LoopOrder[k] = step
    IN  IF i < Len(LoopOrder) THEN LoopOrder[i + 1] ELSE "sleep"

\* variant: the exit-code test inverted
ExitFailed_inverted(return_code) == return_code = 0

\* if return_code != 0
ExitFailed(return_code) == return_code # 0

\* variant: the test only fires a whole polling interval late
TimedOut_late(elapsed, timeout) == elapsed > timeout + PollInterval

\* the timeout test of the loop
TimedOut(elapsed, timeout) == elapsed > timeout

\* the stability bookkeeping for an observed size
NextStable(current_size, last, count) ==
    IF current_size > 0 /\ current_size = last THEN count + 1 ELSE 0

\* lines 65-87: mkdir of the parent (outside the try), the argument list and
\* the two start-up log lines
Prepare(j) ==
    /\ pc = "prepare"
    /\ \/ /\ log' = log \o <<Entry("INFO", StartMsg(j)), Entry("DEBUG", CommandMsg(j))>>
          /\ pc' = "spawn"
          /\ UNCHANGED raised
       \/ /\ raised' = Some([type |-> "OSError", msg |-> MkdirErr])
          /\ pc' = "raised"
          /\ UNCHANGED log
    /\ UNCHANGED <<job, now, start_time, last_size, stable_count, proc, exit_code,
                   returncode, killed, fs, log_locked, result>>
    /\ OwnStep

\* lines 95-105: Popen and the initialisation of the loop locals
Spawn(j) ==
    /\ pc = "spawn"
    /\ \/ /\ proc' = "running"
          /\ start_time' = now
          /\ last_size' = 0
          /\ stable_count' = 0
          /\ pc' = LoopTop
          /\ UNCHANGED <<log, raised>>
       \/ /\ \E e \in SpawnErrors : Fatal(e)
          /\ UNCHANGED <<proc, start_time, last_size, stable_count>>
    /\ UNCHANGED <<job, now, exit_code, returncode, killed, fs, log_locked, result>>
    /\ OwnStep

\* lines 109-113
CheckTimeout(j) ==
    /\ pc = "check_timeout"
    /\ IF TimedOut(now - start_time, j.timeout)
       THEN /\ Kill
            /\ log' = Append(log, Entry("ERROR", TimeoutMsg(j.timeout)))
            /\ Return(FALSE, Some(TimeoutMsg(j.timeout)))
       ELSE /\ pc' = After("check_timeout")
            /\ UNCHANGED <<proc, exit_code, killed, log, result, raised>>
    /\ UNCHANGED <<job, now, start_time, last_size, stable_count, returncode, fs,
                   log_locked>>
    /\ OwnStep

\* lines 116-117: process.poll()
CheckExit(j) ==
    /\ pc = "check_exit"
    /\ IF proc = "exited"
       THEN /\ returncode' = Some(exit_code)
            /\ pc' = "evaluate"
       ELSE /\ pc' = After("check_exit")
            /\ UNCHANGED returncode
    /\ UNCHANGED <<job, now, start_time, last_size, stable_count, proc, exit_code,
                   killed, fs, log_locked, log, result, raised>>
    /\ OwnStep

\* line 120: output_file.exists()
MonitorExists(j) ==
    /\ pc = "monitor_exists"
    /\ pc' = IF Exists(fs[j.output_file]) THEN "monitor_stat"
             ELSE After("monitor_exists")
    /\ UNCHANGED <<job, now, start_time, last_size, stable_count, proc, exit_code,
                   returncode, killed, fs, log_locked, log, result, raised>>
    /\ OwnStep

\* lines 121-126: output_file.stat().st_size and the stability counter
MonitorStat(j) ==
    /\ pc = "monitor_stat"
    /\ \/ /\ Exists(fs[j.output_file])
          /\ LET current_size == StSize(fs[j.output_file])
             IN  /\ stable_count' = NextStable(current_size, last_size, stable_count)
                 /\ last_size' = current_size
          /\ pc' = After("monitor_exists")
          /\ UNCHANGED <<log, raised, result>>
       \/ /\ ~Exists(fs[j.output_file])
          /\ Fatal(FileNotFoundErr(j.output_file))
          /\ UNCHANGED <<last_size, stable_count>>
    /\ UNCHANGED <<job, now, start_time, proc, exit_code, returncode, killed, fs, log_locked>>
    /\ OwnStep

\* line 128: time.sleep(2)
Sleep(j) ==
    /\ pc = "sleep"
    /\ now' = now + PollInterval
    /\ pc' = LoopTop
    /\ UNCHANGED <<job, start_time, last_size, stable_count, proc, exit_code,
                   returncode, killed, fs, log_locked, log, result, raised>>
    /\ OwnStep

\* lines 131-137: the exit code; a non-zero one is explained from the log
Evaluate(j) ==
    /\ pc = "evaluate"
    /\ LET return_code == TheValue(returncode)
       IN  IF ExitFailed(return_code)
           THEN \E ioError \in {None, Some(IOErr(LogFile(j)))} :
                  /\ log' = Append(log, Entry("ERROR", ExitCodeMsg(return_code)))
                  /\ Return(FALSE, Some(read_error_log(fs[LogFile(j)],
                                                       DefaultMaxLines, ioError)))
           ELSE /\ pc' = "verify_exists"
                /\ UNCHANGED <<log, result, raised>>
    /\ UNCHANGED <<job, now, start_time, last_size, stable_count, proc, exit_code,
                   returncode, killed, fs, log_locked>>
    /\ OwnStep

\* line 140, left operand: not output_file.exists()
VerifyExists(j) ==
    /\ pc = "verify_exists"
    /\ IF ~Exists(fs[j.output_file])
       THEN /\ log' = Append(log, Entry("ERROR", NoOutputMsg))
            /\ Return(FALSE, Some(NoOutputMsg))
       ELSE /\ pc' = "verify_stat"
            /\ UNCHANGED <<log, result, raised>>
    /\ UNCHANGED <<job, now, start_time, last_size, stable_count, proc, exit_code,
                   returncode, killed, fs, log_locked>>
    /\ OwnStep

\* line 140, right operand: output_file.stat().st_size == 0; then line 145
VerifyStat(j) ==
    /\ pc = "verify_stat"
    /\ \/ /\ Exists(fs[j.output_file])
          /\ IF StSize(fs[j.output_file]) = 0
             THEN /\ log' = Append(log, Entry("ERROR", NoOutputMsg))
                  /\ Return(FALSE, Some(NoOutputMsg))
             ELSE /\ log' = Append(log, Entry("INFO", SuccessMsg(j)))
                  /\ pc' = "cleanup_exists"
                  /\ UNCHANGED <<result, raised>>
       \/ /\ ~Exists(fs[j.output_file])
          /\ Fatal(FileNotFoundErr(j.output_file))
    /\ UNCHANGED <<job, now, start_time, last_size, stable_count, proc, exit_code,
                   returncode, killed, fs, log_locked>>
    /\ OwnStep

\* line 149: log_file.exists(); without a log file, line 154
CleanupExists(j) ==
    /\ pc = "cleanup_exists"
    /\ IF Exists(fs[LogFile(j)])
       THEN /\ pc' = "cleanup_unlink"
            /\ UNCHANGED <<result, raised>>
       ELSE Return(TRUE, None)
    /\ UNCHANGED <<job, now, start_time, last_size, stable_count, proc, exit_code,
                   returncode, killed, fs, log_locked, log>>
    /\ OwnStep

\* lines 150-154: log_file.unlink(), any exception swallowed, then success
CleanupUnlink(j) ==
    /\ pc = "cleanup_unlink"
    /\ IF Exists(fs[LogFile(j)]) /\ ~log_locked
       THEN fs' = [fs EXCEPT ![LogFile(j)] = Absent]
       ELSE UNCHANGED fs
    /\ Return(TRUE, None)
    /\ UNCHANGED <<job, now, start_time, last_size, stable_count, proc, exit_code,
                   returncode, killed, log_locked, log>>
    /\ OwnStep

\* one step of export_dt called with the arguments j
export_dt(j) ==
    \/ Prepare(j)
    \/ Spawn(j)
    \/ CheckTimeout(j)
    \/ CheckExit(j)
    \/ MonitorExists(j)
    \/ MonitorStat(j)
    \/ Sleep(j)
    \/ Evaluate(j)
    \/ VerifyExists(j)
    \/ VerifyStat(j)
    \/ CleanupExists(j)
    \/ CleanupUnlink(j)

\* ------------------------------------------------------- the environment
\* the configurator writes the archive
ChildWriteArchive ==
    /\ proc = "running" /\ ~Terminal
    /\ \E n \in 0..MaxSize : fs' = [fs EXCEPT ![job.output_file] = Bytes(n)]
    /\ fs' # fs
    /\ UNCHANGED <<job, pc, now, start_time, last_size, stable_count, proc,
                   exit_code, returncode, killed, log_locked, log, result, raised>>
    /\ OwnStep

\* the configurator writes its /Out log
ChildWriteLog ==
    /\ proc = "running" /\ ~Terminal
    /\ \E c \in LogContents : fs' = [fs EXCEPT ![LogFile(job)] = c]
    /\ fs' # fs
    /\ UNCHANGED <<job, pc, now, start_time, last_size, stable_count, proc,
                   exit_code, returncode, killed, log_locked, log, result, raised>>
    /\ OwnStep

\* the configurator exits on its own
ChildExit ==
    /\ proc = "running" /\ ~Terminal
    /\ proc' = "exited"
    /\ \E rc \in ExitCodes : exit_code' = rc
    /\ UNCHANGED <<job, pc, now, start_time, last_size, stable_count, returncode,
                   killed, fs, log_locked, log, result, raised>>
    /\ OwnStep

\* somebody else removes a file while export_dt is monitoring or evaluating
ExternalRemove ==
    /\ proc # "none" /\ ~Terminal
    /\ \E p \in {job.output_file, LogFile(job)} :
          /\ Exists(fs[p])
          /\ fs' = [fs EXCEPT ![p] = Absent]
    /\ UNCHANGED <<job, pc, now, start_time, last_size, stable_count, proc,
                   exit_code, returncode, killed, log_locked, log, result, raised>>
    /\ OwnStep

\* somebody else opens the configurator log once the configurator is gone,
\* so that unlink fails with PermissionError
ExternalLock ==
    /\ proc = "exited" /\ ~Terminal
    /\ ~log_locked
    /\ log_locked' = TRUE
    /\ UNCHANGED <<job, pc, now, start_time, last_size, stable_count, proc,
                   exit_code, returncode, killed, fs, log, result, raised>>
    /\ OwnStep

Next ==
    \/ Prepare(job)
    \/ Spawn(job)
    \/ CheckTimeout(job)
    \/ CheckExit(job)
    \/ MonitorExists(job)
    \/ MonitorStat(job)
    \/ Sleep(job)
    \/ Evaluate(job)
    \/ VerifyExists(job)
    \/ VerifyStat(job)
    \/ CleanupExists(job)
    \/ CleanupUnlink(job)
    \/ ChildWriteArchive
    \/ ChildWriteLog
    \/ ChildExit
    \/ ExternalRemove
    \/ ExternalLock

Spec == Init /\ [][Next]_vars

\* ------------------------------------------- two concurrent invocations
\* A second invocation of export_dt for another job runs on its own thread.
\* It shares nothing with the first but the file system, so it is modelled
\* by what it and its child do to the files: the child writes the archive
\* and the /Out log, and the invocation unlinks its log_file on success.
OtherBasePath == "C:/bases/trade"
ConcOutputs == {Path("backup", "dt"), Path("backup", "bak"), Path("other", "dt")}
ConcFiles == ConcOutputs \cup {with_suffix(p, "log") : p \in ConcOutputs}
OtherLog == <<"t", "r", "a", "d", "e", "\n">>
Other == TheValue(other_job)

ConcInit ==
    /\ job \in [base_path : {BasePath}, output_file : ConcOutputs,
                login : {None}, password : {None}, timeout : Timeouts]
    /\ other_job \in {Some([base_path |-> OtherBasePath, output_file |-> o,
                            login |-> None, password |-> None,
                            timeout |-> MaxTimeout]) :
                          o \in ConcOutputs \ {job.output_file}}
    /\ other_pc = "spawn"
    /\ pc = "prepare"
    /\ now = 0
    /\ start_time = 0 /\ last_size = 0 /\ stable_count = 0
    /\ proc = "none" /\ exit_code = 0 /\ returncode = None /\ killed = FALSE
    /\ fs = [p \in ConcFiles |-> Absent]
    /\ fs_alone = fs
    /\ log_locked = FALSE
    /\ log = <<>>
    /\ result = None
    /\ raised = None
    /\ NoExtract

\* what a step of the other invocation leaves alone: everything but the
\* files and its own position
OtherFrame ==
    UNCHANGED <<job, pc, now, start_time, last_size, stable_count, proc, exit_code,
                returncode, killed, log_locked, log, result, raised,
                fs_alone, other_job, ex_file, ex_max_lines, ex_result>>

\* lines 95-100 in the other invocation
OtherSpawn ==
    /\ other_pc = "spawn"
    /\ other_pc' = "running"
    /\ UNCHANGED fs
    /\ OtherFrame

\* the other configurator writes its archive
OtherChildWriteArchive ==
    /\ other_pc = "running"
    /\ fs' = [fs EXCEPT ![Other.output_file] = Bytes(1)]
    /\ fs' # fs
    /\ UNCHANGED other_pc
    /\ OtherFrame

\* the other configurator writes its /Out log
OtherChildWriteLog ==
    /\ other_pc = "running"
    /\ fs' = [fs EXCEPT ![LogFile(Other)] = OtherLog]
    /\ fs' # fs
    /\ UNCHANGED other_pc
    /\ OtherFrame

\* the other configurator exits and the other invocation polls it
\* (lines 116-117, 131-137): a non-zero code ends it with the log read
OtherChildExit ==
    /\ other_pc = "running"
    /\ \E rc \in ExitCodes :
          other_pc' = IF ExitFailed(rc) THEN "done" ELSE "verify"
    /\ UNCHANGED fs
    /\ OtherFrame

\* line 140 in the other invocation
OtherVerify ==
    /\ other_pc = "verify"
    /\ other_pc' = IF Exists(fs[Other.output_file]) /\ StSize(fs[Other.output_file]) # 0
                   THEN "cleanup" ELSE "done"
    /\ UNCHANGED fs
    /\ OtherFrame

\* lines 148-154 in the other invocation: it unlinks its log_file
OtherCleanup ==
    /\ other_pc = "cleanup"
    /\ fs' = [fs EXCEPT ![LogFile(Other)] = Absent]
    /\ other_pc' = "done"
    /\ OtherFrame

OtherStep ==
    \/ OtherSpawn
    \/ OtherChildWriteArchive
    \/ OtherChildWriteLog
    \/ OtherChildExit
    \/ OtherVerify
    \/ OtherCleanup

\* the two invocations, their children, and nobody else
ConcNext ==
    \/ Prepare(job)
    \/ Spawn(job)
    \/ CheckTimeout(job)
    \/ CheckExit(job)
    \/ MonitorExists(job)
    \/ MonitorStat(job)
    \/ Sleep(job)
    \/ Evaluate(job)
    \/ VerifyExists(job)
    \/ VerifyStat(job)
    \/ CleanupExists(job)
    \/ CleanupUnlink(job)
    \/ ChildWriteArchive
    \/ ChildWriteLog
    \/ ChildExit
    \/ OtherSpawn
    \/ OtherChildWriteArchive
    \/ OtherChildWriteLog
    \/ OtherChildExit
    \/ OtherVerify
    \/ OtherCleanup

SpecConc == ConcInit /\ [][ConcNext]_vars

\* ------------------------------------- _read_error_log called on its own
\* the run of export_dt has not been called
RunIdle ==
    /\ job = [base_path |-> BasePath, output_file |-> Path("backup", "dt"),
              login |-> None, password |-> None, timeout |-> 0]
    /\ pc = "not_called"
    /\ now = 0
    /\ start_time = 0 /\ last_size = 0 /\ stable_count = 0
    /\ proc = "none" /\ exit_code = 0 /\ returncode = None /\ killed = FALSE
    /\ fs = [p \in Files |-> Absent]
    /\ fs_alone = fs
    /\ log_locked = FALSE
    /\ log = <<>>
    /\ result = None
    /\ raised = None

ExtractAlphabet == {"a", " ", "\n"}
ShortTexts == UNION {[1..n -> ExtractAlphabet] : n \in 0..MaxTextLen}

\* the i-th line of a numbered log
NumberedLine(i) == <<"L", ToString(i), "\n">>

\* a log of n numbered lines
NumberedLog(n) == Join([i \in 1..n |-> NumberedLine(i)])

ExtractTexts ==
    ShortTexts \cup
    { NumberedLog(50),
      <<"BOM">> \o NumberedLog(DefaultMaxLines + 1),
      <<" ">> \o Rep("y", MaxDiagLen + 1) \o <<"\n">>,
      Rep("z", MaxDiagLen) \o <<"\n">> }

ExtractMaxLines == (0..MaxLinesArg) \cup {DefaultMaxLines}

ExtractInit ==
    /\ RunIdle /\ NoOther
    /\ ex_file \in ExtractTexts
    /\ ex_max_lines \in ExtractMaxLines
    /\ ex_result = None

\* _read_error_log(log_file, max_lines) on an existing, readable log file
Extract ==
    /\ ex_result = None
    /\ ex_result' = Some(read_error_log(ex_file, ex_max_lines, None))
    /\ UNCHANGED <<job, pc, now, start_time, last_size, stable_count, proc, exit_code,
                   returncode, killed, fs, log_locked, log, result, raised,
                   fs_alone, other_job, other_pc, ex_file, ex_max_lines>>

ExtractNext == Extract

SpecExtract == ExtractInit /\ [][ExtractNext]_vars

\* ------------------------------------------------------------ properties
Elapsed == now - start_time
Archive == fs[job.output_file]
TransientLog == fs[with_suffix(job.output_file, "log")]
Stepped == pc' # pc
Returned(o) == result = Some(o)
TimeoutOutcome == Outcome(FALSE, Some(TimeoutMsg(job.timeout)))
NoOutputOutcome == Outcome(FALSE, Some(NoOutputMsg))
SuccessOutcome == Outcome(TRUE, None)

\* C1: a polling iteration that begins more than `timeout` seconds after the
\* spawn kills the child and returns (False, diagnostic), the diagnostic
\* naming the timeout and its configured duration, and it does so no later
\* than 2 seconds after the timeout boundary.
C1_TimeoutKillsAndReturns ==
    [][ (pc = "check_timeout" /\ Elapsed > job.timeout /\ Stepped) =>
          /\ pc' = "done"
          /\ killed' /\ proc' # "running"
          /\ \E o \in result' :
                /\ o.succeeded = FALSE
                /\ \E d \in o.diagnostic :
                      /\ "Export timeout exceeded (" \in Range(d)
                      /\ ToString(job.timeout) \in Range(d)
          /\ now' - start_time' <= job.timeout + 2 ]_vars

C1_Witness ==
    /\ pc = "done" /\ Returned(TimeoutOutcome)
    /\ killed /\ exit_code = KilledCode
    /\ job.timeout = 3 /\ Elapsed = 4

\* C2: on every exit path after the spawn (return or raise) the child is not
\* left running.
C2_NoOrphanedChild ==
    (Terminal /\ proc # "none") => proc # "running"

\* C3: in every iteration the timeout check comes first, the exit check
\* second and the size observation last; so past the timeout the run is
\* either about to make the timeout check or has returned the timeout
\* failure: a child that has exited (even with code 0 and a non-empty
\* archive) is then reported as a timeout, its exit is never polled and the
\* archive size never observed.
C3_TimeoutTakesPrecedence ==
    [][ /\ (Stepped /\ pc' = "check_exit") => pc = "check_timeout"
        /\ (Stepped /\ pc' = "monitor_exists") => pc = "check_exit"
        /\ (last_size' # last_size \/ stable_count' # stable_count)
              => pc = "monitor_stat"
        /\ (now' - start_time' > job.timeout) =>
              /\ pc' \in {"check_timeout", "done"}
              /\ returncode' = None
              /\ pc' = "done" => result' = Some(TimeoutOutcome) ]_vars

C3_Witness ==
    /\ pc = "done" /\ Returned(TimeoutOutcome)
    /\ exit_code = 0
    /\ Exists(Archive) /\ StSize(Archive) > 0

\* C4: an exit code 0 polled before the timeout, with the archive existing
\* and non-empty when it is probed, leads to the success outcome
\* (True, None); at the return the transient log is gone unless it could not
\* be deleted, and a failed deletion still returns success.
C4_SuccessDeletesLog ==
    [][ /\ (pc = "evaluate" /\ returncode = Some(0) /\ Stepped) => pc' = "verify_exists"
        /\ (pc = "verify_exists" /\ Exists(Archive) /\ Stepped) => pc' = "verify_stat"
        /\ (pc = "verify_stat" /\ Exists(Archive) /\ StSize(Archive) > 0 /\ Stepped)
              => pc' = "cleanup_exists"
        /\ (pc = "cleanup_exists" /\ Stepped) =>
              \/ pc' = "cleanup_unlink" /\ Exists(TransientLog)
              \/ pc' = "done" /\ result' = Some(SuccessOutcome) /\ ~Exists(TransientLog')
        /\ (pc = "cleanup_unlink" /\ Stepped) =>
              /\ pc' = "done" /\ result' = Some(SuccessOutcome)
              /\ ~log_locked => ~Exists(TransientLog') ]_vars

C4_Witness ==
    /\ pc = "done" /\ Returned(SuccessOutcome)
    /\ returncode = Some(0)
    /\ Exists(Archive) /\ StSize(Archive) > 0
    /\ ~log_locked /\ ~Exists(TransientLog)
    /\ Len(log) = 3 /\ job.output_file.ext = "dt"

C4_WitnessLocked ==
    /\ pc = "done" /\ Returned(SuccessOutcome)
    /\ log_locked /\ Exists(TransientLog)

\* C5: a non-zero exit code polled before the timeout returns a failure
\* whose diagnostic is exactly what _read_error_log (max_lines = 20) gives
\* for the job's log file, the output path with its suffix replaced by .log.
C5_NonZeroExitDiagnostic ==
    [][ (pc = "evaluate" /\ returncode # Some(0) /\ Stepped) =>
          /\ pc' = "done"
          /\ \E ioError \in {None, Some(IOErr(with_suffix(job.output_file, "log")))} :
                result' = Some(Outcome(FALSE,
                               Some(read_error_log(TransientLog, 20, ioError)))) ]_vars

C5_Witness ==
    /\ pc = "done" /\ returncode = Some(1)
    /\ Returned(Outcome(FALSE, Some(<<"e", "r", "r">>)))
    /\ job.output_file.ext = "dt"

\* C6: an exit code 0 with the archive missing or of length zero returns the
\* failure outcome with the fixed 'output not produced' diagnostic, and no
\* failure path deletes the transient log.
C6_NoOutputFailure ==
    [][ /\ (pc = "verify_exists" /\ ~Exists(Archive) /\ Stepped)
              => result' = Some(NoOutputOutcome)
        /\ (pc = "verify_stat" /\ (~Exists(Archive) \/ StSize(Archive) = 0) /\ Stepped)
              => result' = Some(NoOutputOutcome)
        /\ (Stepped /\ Terminal' /\ result' # Some(SuccessOutcome))
              => TransientLog' = TransientLog ]_vars

\* C7: a returned outcome has a diagnostic exactly when it failed, and the
\* diagnostic of a failure is a non-empty string.
C7_FailureHasDiagnostic ==
    \A o \in result :
        /\ (o.diagnostic # None) <=> ~o.succeeded
        /\ \A d \in o.diagnostic : d # <<>> /\ \A i \in DOMAIN d : d[i] # ""

C7_Witness ==
    /\ pc = "done" /\ returncode = Some(1)
    /\ TransientLog = <<" ", "\n", "\t">>
    /\ Returned(Outcome(FALSE, Some(NoDescriptionMsg)))

\* C8: in an iteration with the child still running and the timeout not
\* expired, the stability counter is reset to 0 when the archive is absent
\* or its size differs from the last one observed, and is incremented by
\* exactly 1 when the size is non-zero and unchanged.
C8_StabilityCounter ==
    [][ /\ (pc = "monitor_exists" /\ ~Exists(Archive) /\ Stepped)
              => stable_count' = 0
        /\ (pc = "monitor_stat" /\ Exists(Archive) /\ Stepped) =>
              IF StSize(Archive) # last_size THEN stable_count' = 0
              ELSE StSize(Archive) > 0 => stable_count' = stable_count + 1 ]_vars

\* C9: export failures (non-zero exit, missing or empty output, timeout) are
\* returned and never raised, environment errors while spawning or
\* monitoring are raised as OneCError and never returned; once exit code 0
\* was polled, an archive that vanishes yields the 'output not produced'
\* outcome, not an exception.
C9_ErrorClassification ==
    /\ (raised # None /\ log # <<>>) =>
          /\ \A e \in raised : e.type = "OneCError"
          /\ returncode = None
          /\ result = None
    /\ (result # None) => raised = None /\ proc = "exited"

\* the last n lines of a list of lines, all of them when there are fewer
OnlyLastLines(lines, n) ==
    LET k == Min({n, Len(lines)})
    IN  [i \in 1..k |-> lines[Len(lines) - k + i]]

\* C11: on an existing readable log and max_lines >= 0, _read_error_log
\* returns the text of only the last max_lines lines (all lines when there
\* are fewer), joined and trimmed, cut to 1000 characters with "..."
\* appended exactly when it was longer (the fixed 'no description' message
\* when that text is empty): no earlier line contributes.
C11_OnlyLastLines ==
    \A r \in ex_result :
        LET text == Strip(Join(OnlyLastLines(readlines(Decode(ex_file)), ex_max_lines)))
            cut == IF Len(text) > 1000
                   THEN SubSeq(text, 1, 1000) \o <<".", ".", ".">>
                   ELSE text
        IN  r = IF cut = <<>> THEN NoDescriptionMsg ELSE cut

\* the same for max_lines >= 1
C11_OnlyLastLinesPositive ==
    ex_max_lines >= 1 => C11_OnlyLastLines

\* Scenario C: 50 lines, max_lines = 20: exactly the last 20 lines
C11_ScenarioC ==
    /\ ex_file = NumberedLog(50) /\ ex_max_lines = 20
    /\ ex_result = Some(Strip(Join([i \in 1..20 |-> NumberedLine(30 + i)])))

ArchiveAlone == fs_alone[job.output_file]
TransientLogAlone == fs_alone[with_suffix(job.output_file, "log")]

\* C12: with a second invocation for another job (another database, another
\* output path) running concurrently, an invocation returns under every
\* interleaving the outcome and diagnostic it would return alone: its
\* verdict steps decide as they would on the files left by itself and its
\* own child.
C12_SameOutcomeAsAlone ==
    [][ /\ (pc = "evaluate" /\ Stepped /\ pc' = "done") =>
              \E ioError \in {None, Some(IOErr(with_suffix(job.output_file, "log")))} :
                 result' = Some(Outcome(FALSE,
                                 Some(read_error_log(TransientLogAlone, 20, ioError))))
        /\ (pc = "verify_exists" /\ Stepped) =>
              (result' = Some(NoOutputOutcome) <=> ~Exists(ArchiveAlone))
        /\ (pc = "verify_stat" /\ Stepped) =>
              /\ raised' = None
              /\ result' = Some(NoOutputOutcome) <=> StSize(ArchiveAlone) = 0 ]_vars

\* C12, the reason given: no step of the other invocation or of its child
\* changes the archive or the transient log of this one.
C12_OtherKeepsFiles ==
    [][ OtherStep => /\ Archive' = Archive
                     /\ TransientLog' = TransientLog ]_vars

\* C13: the stability counter never decides the verdict. The size
\* observations of the loop only write the two counters and go on to the
\* sleep whatever they saw; the verification is entered only from the poll
\* that saw the child exited with code 0, never with the child running; and
\* success is returned only after the archive was probed non-empty.
C13_CounterNeverDecides ==
    [][ /\ (pc \in {"monitor_exists", "monitor_stat"} /\ Stepped) =>
              /\ result' = None
              /\ returncode' = returncode
              /\ IF pc = "monitor_exists" /\ Exists(Archive)
                 THEN pc' = "monitor_stat"
                 ELSE pc' = "sleep" \/ (pc' = "raised" /\ ~Exists(Archive))
        /\ (stable_count' # stable_count \/ last_size' # last_size) =>
              pc \in {"spawn", "monitor_stat"}
        /\ (pc' = "evaluate" /\ Stepped) =>
              pc = "check_exit" /\ proc = "exited" /\ returncode' = Some(exit_code)
        /\ (pc' = "verify_exists" /\ Stepped) =>
              pc = "evaluate" /\ returncode = Some(0) /\ proc = "exited"
        /\ (pc' = "verify_stat" /\ Stepped) => pc = "verify_exists"
        /\ (pc' = "cleanup_exists" /\ Stepped) =>
              /\ pc = "verify_stat"
              /\ Exists(Archive) /\ StSize(Archive) > 0
        /\ (pc' = "cleanup_unlink" /\ Stepped) => pc = "cleanup_exists"
        /\ (result' = Some(SuccessOutcome) /\ result = None) =>
              /\ pc \in {"cleanup_exists", "cleanup_unlink"}
              /\ returncode = Some(0) /\ proc = "exited" /\ ~killed ]_vars

C13_Witness ==
    /\ pc = "done" /\ Returned(SuccessOutcome)
    /\ stable_count >= 1 /\ last_size > 0
    /\ returncode = Some(0)

\* success returned with the counter never having left 0
C13_WitnessUnstable ==
    /\ pc = "done" /\ Returned(SuccessOutcome)
    /\ stable_count = 0 /\ last_size = 0

\* C14: the best-effort deletion of the log never removes the archive that
\* was just verified: the cleanup steps leave the archive as it is, so an
\* archive that is there and non-empty before them is there and non-empty
\* when success is returned - for every output path, one with the
\* extension .log included.
C14_CleanupKeepsArchive ==
    [][ (pc \in {"cleanup_exists", "cleanup_unlink"} /\ Stepped) =>
            /\ Archive' = Archive
            /\ (result' = Some(SuccessOutcome) /\ Exists(Archive) /\ StSize(Archive) > 0)
                  => Exists(Archive') /\ StSize(Archive') > 0 ]_vars

\* C14 for the output paths whose extension is not .log
C14_CleanupKeepsArchiveOtherExt ==
    [][ (pc \in {"cleanup_exists", "cleanup_unlink"} /\ Stepped
         /\ job.output_file.ext # "log") =>
            /\ Archive' = Archive
            /\ (result' = Some(SuccessOutcome) /\ Exists(Archive) /\ StSize(Archive) > 0)
                  => Exists(Archive') /\ StSize(Archive') > 0 ]_vars

\* success returned for an output path with the extension .log
C14_LogExtReturned ==
    /\ pc = "done" /\ Returned(SuccessOutcome)
    /\ job.output_file.ext = "log"
    /\ ~Exists(Archive)

\* C10: what export_dt logs (and the message of the error it raises) does
\* not depend on the password: every step of export_dt is, with the same
\* log lines, result and raised error, a step of export_dt called with any
\* other password; and no logged or raised message contains the password.
C10_LogIndependentOfPassword ==
    [][ /\ export_dt(job) => \A q \in Passwords : export_dt(WithPassword(job, q))
        /\ Truthy(job.password) =>
              /\ \A i \in DOMAIN log' : TheValue(job.password) \notin Range(log'[i].msg)
              /\ \A e \in raised' : TheValue(job.password) \notin Range(e.msg) ]_vars

C10_Witness ==
    /\ Truthy(job.password)
    /\ pc = "raised" /\ proc = "none" /\ Len(log) = 3
    /\ log[2].level = "DEBUG"

=============================================================================
